---------------------------- MODULE Spec2Model ----------------------------
(***************************************************************************)
(* A model of handler.py: the Lambda-style event handler, its three type   *)
(* validators and the Python values they compute with.                     *)
(*                                                                         *)
(* Python values are tagged records (see None .. JDict).  A Python str is *)
(* a sequence of segments whose concatenation is the string: a segment is  *)
(* one character of a value that the code inspects (an email, a plan, ...) *)
(* or a whole literal of the code (an error message).  A Python int is a   *)
(* sign and an arbitrary-precision magnitude (limbs of 15 bits, least      *)
(* significant first); a Python float is an IEEE-754 binary64 value with   *)
(* its 53-bit significand held the same way.                               *)
(***************************************************************************)
EXTENDS Integers, Sequences, FiniteSets, TLC

VARIABLES event, context, result, history

vars == <<event, context, result, history>>

(***************************************************************************)
(* Arbitrary-precision naturals: what a Python int holds, and what the     *)
(* float operations below are computed with.                               *)
(***************************************************************************)
BASE == 2^15

Max(a, b) == IF a >= b THEN a ELSE b

Min(a, b) == IF a <= b THEN a ELSE b

Zeros(n) == [i \in 1..n |-> 0]

RECURSIVE BigTrim(_)
BigTrim(A) ==
    IF A = <<>> THEN <<>>
    ELSE IF A[Len(A)] = 0 THEN BigTrim(SubSeq(A, 1, Len(A) - 1))
    ELSE A

RECURSIVE NatToBig(_)
NatToBig(n) == IF n = 0 THEN <<>> ELSE <<n % BASE>> \o NatToBig(n \div BASE)

Limb(A, i) == IF i <= Len(A) THEN A[i] ELSE 0

RECURSIVE BigAddFrom(_, _, _, _)
BigAddFrom(A, B, i, c) ==
    IF i > Len(A) /\ i > Len(B) THEN (IF c = 0 THEN <<>> ELSE <<c>>)
    ELSE LET t == Limb(A, i) + Limb(B, i) + c
         IN  <<t % BASE>> \o BigAddFrom(A, B, i + 1, t \div BASE)

BigAdd(A, B) == BigAddFrom(A, B, 1, 0)

RECURSIVE BigSubFrom(_, _, _, _)
BigSubFrom(A, B, i, b) ==
    IF i > Len(A) THEN <<>>
    ELSE LET t == A[i] - Limb(B, i) - b
         IN  IF t < 0 THEN <<t + BASE>> \o BigSubFrom(A, B, i + 1, 1)
             ELSE <<t>> \o BigSubFrom(A, B, i + 1, 0)

\* A - B for A >= B
BigSub(A, B) == BigTrim(BigSubFrom(A, B, 1, 0))

RECURSIVE BigCmpFrom(_, _, _)
BigCmpFrom(A, B, i) ==
    IF i = 0 THEN 0
    ELSE IF A[i] > B[i] THEN 1
    ELSE IF A[i] < B[i] THEN -1
    ELSE BigCmpFrom(A, B, i - 1)

\* -1, 0, 1 as A <, =, > B
BigCmp(A, B) ==
    IF Len(A) > Len(B) THEN 1
    ELSE IF Len(A) < Len(B) THEN -1
    ELSE BigCmpFrom(A, B, Len(A))

RECURSIVE BigMulSmallFrom(_, _, _, _)
BigMulSmallFrom(A, c, i, carry) ==
    IF i > Len(A) THEN NatToBig(carry)
    ELSE LET t == A[i] * c + carry
         IN  <<t % BASE>> \o BigMulSmallFrom(A, c, i + 1, t \div BASE)

\* A * c for 0 <= c < BASE
BigMulSmall(A, c) == IF c = 0 \/ A = <<>> THEN <<>> ELSE BigMulSmallFrom(A, c, 1, 0)

ShiftLimbs(A, n) == IF A = <<>> THEN <<>> ELSE Zeros(n) \o A

RECURSIVE BigMulFrom(_, _, _)
BigMulFrom(A, B, i) ==
    IF i > Len(B) THEN <<>>
    ELSE BigAdd(BigMulSmall(A, B[i]), ShiftLimbs(BigMulFrom(A, B, i + 1), 1))

BigMul(A, B) == BigMulFrom(A, B, 1)

RECURSIVE BigDivSmallFrom(_, _, _, _)
BigDivSmallFrom(A, d, i, r) ==
    IF i = 0 THEN [q |-> <<>>, r |-> r]
    ELSE LET t    == r * BASE + A[i]
             rest == BigDivSmallFrom(A, d, i - 1, t % d)
         IN  [q |-> Append(rest.q, t \div d), r |-> rest.r]

\* quotient and remainder of A by d, 0 < d <= BASE
BigDivSmall(A, d) ==
    LET x == BigDivSmallFrom(A, d, Len(A), 0) IN [q |-> BigTrim(x.q), r |-> x.r]

RECURSIVE SmallBitLen(_)
SmallBitLen(n) == IF n = 0 THEN 0 ELSE 1 + SmallBitLen(n \div 2)

BitLen(A) == IF A = <<>> THEN 0 ELSE 15 * (Len(A) - 1) + SmallBitLen(A[Len(A)])

Pow2Big(s) == Zeros(s \div 15) \o <<2^(s % 15)>>

\* A * 2^s
BigShl(A, s) == ShiftLimbs(BigMulSmall(A, 2^(s % 15)), s \div 15)

\* A \div 2^s
BigShr(A, s) ==
    IF s \div 15 >= Len(A) THEN <<>>
    ELSE BigDivSmall(SubSeq(A, s \div 15 + 1, Len(A)), 2^(s % 15)).q

IsOdd(A) == A # <<>> /\ A[1] % 2 = 1

\* A / 2^s rounded to the nearest integer, ties to even
BigShrHalfEven(A, s) ==
    IF s = 0 THEN A
    ELSE LET q == BigShr(A, s)
             c == BigCmp(BigSub(A, BigShl(q, s)), Pow2Big(s - 1))
         IN  IF c = 1 \/ (c = 0 /\ IsOdd(q)) THEN BigAdd(q, <<1>>) ELSE q

(***************************************************************************)
(* Python floats: IEEE-754 binary64, round-to-nearest-even.  A finite      *)
(* value is (-1)^neg * m * 2^e with m = 0 (and e = 0) or 2^52 <= m < 2^53. *)
(* Subnormals are not represented: no input of the model is below 2^-1022. *)
(***************************************************************************)
FZero(neg) == [k |-> "fin", neg |-> neg, m |-> <<>>, e |-> 0]

FInf(neg) == [k |-> "inf", neg |-> neg, m |-> <<>>, e |-> 0]

FNan == [k |-> "nan", neg |-> FALSE, m |-> <<>>, e |-> 0]

FIsZero(x) == x.k = "fin" /\ x.m = <<>>

\* the value (Q + f) * 2^e0, 0 <= f < 1 and f > 0 iff sticky, rounded to 53 bits,
\* for Q of at most 6 limbs
FRoundTop(Q, sticky, e0) ==
    LET L == BitLen(Q)
    IN  IF L <= 53 THEN [m |-> BigShl(Q, 53 - L), e |-> e0 - (53 - L)]
        ELSE LET t  == L - 53
                 M  == BigShr(Q, t)
                 c  == BigCmp(BigSub(Q, BigShl(M, t)), Pow2Big(t - 1))
                 up == c = 1 \/ (c = 0 /\ (sticky \/ IsOdd(M)))
                 M2 == IF up THEN BigAdd(M, <<1>>) ELSE M
             IN  IF BitLen(M2) = 54 THEN [m |-> BigShr(M2, 1), e |-> e0 + t + 1]
                 ELSE [m |-> M2, e |-> e0 + t]

\* the same for any Q: the limbs below the top 6 only say whether anything is
\* left below them
FRoundBig(Q, sticky, e0) ==
    LET n == Len(Q) - 6
    IN  IF n <= 0 THEN FRoundTop(Q, sticky, e0)
        ELSE FRoundTop(SubSeq(Q, n + 1, Len(Q)),
                       sticky \/ \E i \in 1..n : Q[i] # 0, e0 + 15 * n)

\* a rounded significand and exponent as a float: beyond the largest finite value, inf
FFinish(neg, r) ==
    IF r.e + 53 > 1024 THEN FInf(neg)
    ELSE [k |-> "fin", neg |-> neg, m |-> r.m, e |-> r.e]

\* the float nearest to N / d (what reading a decimal literal, or the last step of
\* round(), produces), 0 < d < BASE
FFromRatio(neg, N, d) ==
    IF N = <<>> THEN FZero(neg)
    ELSE LET s  == Max(0, 55 + SmallBitLen(d) - BitLen(N))
             dv == BigDivSmall(BigShl(N, s), d)
         IN  FFinish(neg, FRoundBig(dv.q, dv.r # 0, -s))

\* x * y
FMul(x, y) ==
    LET neg == x.neg # y.neg
    IN  IF x.k = "nan" \/ y.k = "nan" THEN FNan
        ELSE IF x.k = "inf" \/ y.k = "inf"
             THEN (IF FIsZero(x) \/ FIsZero(y) THEN FNan ELSE FInf(neg))
        ELSE IF FIsZero(x) \/ FIsZero(y) THEN FZero(neg)
        ELSE FFinish(neg, FRoundBig(BigMul(x.m, y.m), FALSE, x.e + y.e))

\* the exact sum of two finite floats, as a sign and a magnitude in units of 2^e
FExactAdd(x, y) ==
    LET e  == IF FIsZero(x) THEN y.e ELSE IF FIsZero(y) THEN x.e ELSE Min(x.e, y.e)
        X  == BigShl(x.m, IF FIsZero(x) THEN 0 ELSE x.e - e)
        Y  == BigShl(y.m, IF FIsZero(y) THEN 0 ELSE y.e - e)
        c  == BigCmp(X, Y)
    IN  IF x.neg = y.neg THEN [neg |-> x.neg, mag |-> BigAdd(X, Y), e |-> e]
        ELSE IF c = 0 THEN [neg |-> FALSE, mag |-> <<>>, e |-> e]
        ELSE IF c = 1 THEN [neg |-> x.neg, mag |-> BigSub(X, Y), e |-> e]
        ELSE [neg |-> y.neg, mag |-> BigSub(Y, X), e |-> e]

FNeg(x) == [x EXCEPT !.neg = ~x.neg]

\* x - y
FSub(x, y) ==
    IF x.k = "nan" \/ y.k = "nan" THEN FNan
    ELSE IF x.k = "inf" /\ y.k = "inf" THEN (IF x.neg = y.neg THEN FNan ELSE x)
    ELSE IF x.k = "inf" THEN x
    ELSE IF y.k = "inf" THEN FNeg(y)
    ELSE LET d == FExactAdd(x, FNeg(y))
         IN  IF d.mag = <<>> THEN FZero(FALSE)
             ELSE FFinish(d.neg, FRoundBig(d.mag, FALSE, d.e))

\* round(x, 3): the exact value of x rounded to 3 decimals, ties to even, and the
\* float nearest to that decimal; an integer-valued x (e >= 0) is its own rounding
FRound3(x) ==
    IF x.k # "fin" \/ FIsZero(x) \/ x.e >= 0 THEN x
    ELSE FFromRatio(x.neg, BigShrHalfEven(BigMulSmall(x.m, 1000), -x.e), 1000)

(***************************************************************************)
(* Python values, as json.load() and the handler build them.               *)
(***************************************************************************)
None == [kind |-> "null"]

JBool(b) == [kind |-> "bool", b |-> b]

JInt(neg, mag) == [kind |-> "int", neg |-> neg, mag |-> mag]

JFloat(x) == [kind |-> "float", f |-> x]

JStr(s) == [kind |-> "str", s |-> s]

JList(items) == [kind |-> "list", items |-> items]

JDict(d) == [kind |-> "dict", d |-> d]

\* a literal of the code, as a str
Lit(s) == <<s>>

\* isinstance(v, dict), isinstance(v, str): the exact JSON kinds
IsDict(v) == v.kind = "dict"

IsStr(v) == v.kind = "str"

\* isinstance(v, int): bool is a subclass of int
IsInt(v) == v.kind \in {"int", "bool"}

\* isinstance(v, (int, float))
IsNumber(v) == v.kind \in {"int", "bool", "float"}

\* event.get(key): None when the key is absent
Get(ev, key) == IF key \in DOMAIN ev.d THEN ev.d[key] ELSE None

\* hash(v) succeeds: a list or a dict raises TypeError
Hashable(v) == v.kind \notin {"list", "dict"}

\* the integer an int or a bool stands for, as sign and magnitude
IntOf(v) ==
    IF v.kind = "bool" THEN [neg |-> FALSE, mag |-> IF v.b THEN <<1>> ELSE <<>>]
    ELSE [neg |-> v.neg, mag |-> v.mag]

\* v < c for an int or bool v and a natural c
IntLt(v, c) == IntOf(v).neg \/ BigCmp(IntOf(v).mag, NatToBig(c)) = -1

\* v <= 0 for an int, bool or float v (nan compares false)
LeZero(v) ==
    IF v.kind = "float"
    THEN (v.f.k = "inf" /\ v.f.neg) \/ (v.f.k = "fin" /\ (v.f.neg \/ v.f.m = <<>>))
    ELSE IntOf(v).neg \/ IntOf(v).mag = <<>>

Return(v) == [kind |-> "return", value |-> v]

Raise(exc) == [kind |-> "raise", exc |-> exc]

\* float(v) for an int, bool or float v: an int that rounds beyond the largest
\* finite float raises OverflowError
PyFloat(v) ==
    IF v.kind = "float" THEN Return(v.f)
    ELSE LET i == IntOf(v)
             r == FRoundBig(i.mag, FALSE, 0)
         IN  IF i.mag = <<>> THEN Return(FZero(FALSE))
             ELSE IF r.e + 53 > 1024 THEN Raise("OverflowError")
             ELSE Return([k |-> "fin", neg |-> i.neg, m |-> r.m, e |-> r.e])

(***************************************************************************)
(* str methods and str() of a value.                                       *)
(***************************************************************************)
UpperAlpha ==
    <<"A", "B", "C", "D", "E", "F", "G", "H", "I", "J", "K", "L", "M",
      "N", "O", "P", "Q", "R", "S", "T", "U", "V", "W", "X", "Y", "Z">>

LowerAlpha ==
    <<"a", "b", "c", "d", "e", "f", "g", "h", "i", "j", "k", "l", "m",
      "n", "o", "p", "q", "r", "s", "t", "u", "v", "w", "x", "y", "z">>

MapChar(c, from, to) ==
    IF \E i \in 1..Len(from) : from[i] = c
    THEN to[CHOOSE i \in 1..Len(from) : from[i] = c]
    ELSE c

\* s.lower(), s.upper()
Lower(s) == [i \in 1..Len(s) |-> MapChar(s[i], UpperAlpha, LowerAlpha)]

Upper(s) == [i \in 1..Len(s) |-> MapChar(s[i], LowerAlpha, UpperAlpha)]

\* str.isspace() of a character, which is also what \s matches
IsSpace(c) == c \in {" ", "\t", "\n", "\r", "\f"}

\* s.strip()
Strip(s) ==
    LET keep == {i \in 1..Len(s) : ~IsSpace(s[i])}
    IN  IF keep = {} THEN <<>>
        ELSE SubSeq(s, CHOOSE i \in keep : \A j \in keep : i <= j,
                       CHOOSE i \in keep : \A j \in keep : i >= j)

Digits == <<"0", "1", "2", "3", "4", "5", "6", "7", "8", "9">>

RECURSIVE BigToDec(_)
BigToDec(A) ==
    IF A = <<>> THEN <<>>
    ELSE LET dv == BigDivSmall(A, 10) IN Append(BigToDec(dv.q), Digits[dv.r + 1])

\* the decimal digits of a natural
DecStr(A) == IF A = <<>> THEN <<"0">> ELSE BigToDec(A)

RECURSIVE DropZeros(_)
DropZeros(s) ==
    IF Len(s) > 1 /\ s[Len(s)] = "0" THEN DropZeros(SubSeq(s, 1, Len(s) - 1)) ELSE s

\* repr() of a finite float below 10^16 whose exact value has at most four
\* decimals: the shortest string that reads back as the float is that decimal
FloatStr(x) ==
    LET K    == IF x.e >= 0 THEN BigShl(BigMulSmall(x.m, 10000), x.e)
                ELSE BigShr(BigMulSmall(x.m, 10000), -x.e)
        dv   == BigDivSmall(K, 10000)
        frac == DecStr(NatToBig(dv.r))
    IN  (IF x.neg THEN <<"-">> ELSE <<>>) \o DecStr(dv.q) \o <<".">>
            \o DropZeros([i \in 1..(4 - Len(frac)) |-> "0"] \o frac)

\* str(v), as an f-string interpolates it (hashable values only)
PyStr(v) ==
    CASE v.kind = "null"  -> <<"None">>
      [] v.kind = "bool"  -> IF v.b THEN <<"True">> ELSE <<"False">>
      [] v.kind = "int"   -> (IF v.neg THEN <<"-">> ELSE <<>>) \o DecStr(v.mag)
      [] v.kind = "float" -> FloatStr(v.f)
      [] v.kind = "str"   -> v.s

(***************************************************************************)
(* handler.py                                                              *)
(***************************************************************************)
S_USER_SIGNUP == <<"U", "S", "E", "R", "_", "S", "I", "G", "N", "U", "P">>

S_PAYMENT == <<"P", "A", "Y", "M", "E", "N", "T">>

S_FILE_UPLOAD == <<"F", "I", "L", "E", "_", "U", "P", "L", "O", "A", "D">>

ALLOWED_TYPES == {JStr(S_USER_SIGNUP), JStr(S_PAYMENT), JStr(S_FILE_UPLOAD)}

_err_keeps_data(msgs) ==
    [status |-> "error", message |-> "Event rejected", data |-> JDict(<<>>),
     errors |-> msgs]

\* _err(*msgs)
_err(msgs) ==
    [status |-> "error", message |-> "Event rejected", data |-> None, errors |-> msgs]

\* _ok(message, data)
_ok(message, data) ==
    [status |-> "ok", message |-> message, data |-> data, errors |-> <<>>]

\* [^@\s]+
EmailRun(s, lo, hi) == lo <= hi /\ \A i \in lo..hi : s[i] # "@" /\ ~IsSpace(s[i])

\* ^[^@\s]+@[^@\s]+\.[^@\s]+ matched against the whole of s
EmailBody(s) ==
    \E i \in 1..Len(s) : \E j \in 1..Len(s) :
        /\ s[i] = "@"
        /\ s[j] = "."
        /\ EmailRun(s, 1, i - 1)
        /\ EmailRun(s, i + 1, j - 1)
        /\ EmailRun(s, j + 1, Len(s))

\* re.match(r"^[^@\s]+@[^@\s]+\.[^@\s]+$", value): $ matches at the end of the
\* string and also just before a newline that ends it
_is_email(value) ==
    \/ EmailBody(value)
    \/ /\ Len(value) > 0
       /\ value[Len(value)] = "\n"
       /\ EmailBody(SubSeq(value, 1, Len(value) - 1))

\* if c: errors.append(msg)
If(c, msg) == IF c THEN <<Lit(msg)>> ELSE <<>>

S_free == <<"f", "r", "e", "e">>

S_pro == <<"p", "r", "o">>

S_edu == <<"e", "d", "u">>

\* the errors handle_user_signup collects; plan is plan0 lower-cased when a str
signup_errors(user_id, email, plan0, plan) ==
    If(~IsInt(user_id), "user_id must be an integer")
    \o If(~IsStr(email), "email must be a string")
    \o If(~IsStr(plan0), "plan must be a string")
    \o If(IsStr(email) /\ ~_is_email(email.s), "Invalid email format")
    \o If(IsStr(plan) /\ plan.s \notin {S_free, S_pro, S_edu}, "Invalid plan value")

signup_data_raw_email(user_id, email, plan) ==
    JDict([user_id |-> user_id,
           email |-> email,
           plan |-> plan,
           welcome_email_subject |->
               JStr(Lit("Welcome to the ") \o plan.s \o Lit(" plan!"))])

\* the data handle_user_signup returns
signup_data(user_id, email, plan) ==
    JDict([user_id |-> user_id,
           email |-> JStr(Lower(email.s)),
           plan |-> plan,
           welcome_email_subject |->
               JStr(Lit("Welcome to the ") \o plan.s \o Lit(" plan!"))])

handle_user_signup(ev) ==
    LET user_id == Get(ev, "user_id")
        email   == Get(ev, "email")
        plan0   == Get(ev, "plan")
        plan    == IF IsStr(plan0) THEN JStr(Lower(plan0.s)) ELSE plan0
        errors  == signup_errors(user_id, email, plan0, plan)
    IN  IF errors # <<>> THEN Return(_err(errors))
        ELSE Return(_ok("Signup processed", signup_data(user_id, email, plan)))

S_BHD == <<"B", "H", "D">>

S_USD == <<"U", "S", "D">>

S_EUR == <<"E", "U", "R">>

payment_errors_amount_first(payment_id, user_id, amount, currency0, currency) ==
    If(~IsStr(payment_id), "payment_id must be a string")
    \o If(~IsInt(user_id), "user_id must be an integer")
    \o If(~IsNumber(amount), "amount must be a number")
    \o If(IsNumber(amount) /\ LeZero(amount), "amount must be greater than 0")
    \o If(~IsStr(currency0), "currency must be a string")
    \o If(IsStr(currency) /\ currency.s \notin {S_BHD, S_USD, S_EUR}, "Unsupported currency")

\* the errors handle_payment collects; currency is currency0 upper-cased when a str
payment_errors(payment_id, user_id, amount, currency0, currency) ==
    If(~IsStr(payment_id), "payment_id must be a string")
    \o If(~IsInt(user_id), "user_id must be an integer")
    \o If(~IsNumber(amount), "amount must be a number")
    \o If(~IsStr(currency0), "currency must be a string")
    \o If(IsNumber(amount) /\ LeZero(amount), "amount must be greater than 0")
    \o If(IsStr(currency) /\ currency.s \notin {S_BHD, S_USD, S_EUR}, "Unsupported currency")

\* the literal 0.02
FeeRate == FFromRatio(FALSE, <<2>>, 100)

\* amount, fee and net_amount from float(amount)
payment_amounts(x) ==
    LET amount     == FRound3(x)
        fee        == FRound3(FMul(amount, FeeRate))
        net_amount == FRound3(FSub(amount, fee))
    IN  [amount |-> amount, fee |-> fee, net_amount |-> net_amount]

handle_payment(ev) ==
    LET payment_id == Get(ev, "payment_id")
        user_id    == Get(ev, "user_id")
        amount     == Get(ev, "amount")
        currency0  == Get(ev, "currency")
        currency   == IF IsStr(currency0) THEN JStr(Upper(currency0.s)) ELSE currency0
        errors     == payment_errors(payment_id, user_id, amount, currency0, currency)
        asfloat    == PyFloat(amount)
        a          == payment_amounts(asfloat.value)
    IN  IF errors # <<>> THEN Return(_err(errors))
        ELSE IF asfloat.kind = "raise" THEN asfloat
        ELSE Return(_ok("Payment processed", JDict(
                 [payment_id |-> payment_id,
                  user_id |-> user_id,
                  amount |-> JFloat(a.amount),
                  currency |-> currency,
                  fee |-> JFloat(a.fee),
                  net_amount |-> JFloat(a.net_amount)])))

\* the errors handle_file_upload collects
upload_errors(file_name, size_bytes, bucket, uploader) ==
    If(~IsStr(file_name), "file_name must be a string")
    \o If(~IsInt(size_bytes), "size_bytes must be an integer")
    \o If(IsInt(size_bytes) /\ IntLt(size_bytes, 0), "size_bytes must be >= 0")
    \o If(~IsStr(bucket), "bucket must be a string")
    \o If(~IsStr(uploader), "uploader must be a string")
    \o If(IsStr(uploader) /\ ~_is_email(uploader.s), "Invalid uploader email")

storage_class_inclusive(size_bytes) ==
    IF IntLt(size_bytes, 1000000 + 1) THEN "STANDARD"
    ELSE IF IntLt(size_bytes, 50000000 + 1) THEN "STANDARD_IA"
    ELSE "GLACIER"

storage_class(size_bytes) ==
    IF IntLt(size_bytes, 1000000) THEN "STANDARD"
    ELSE IF IntLt(size_bytes, 50000000) THEN "STANDARD_IA"
    ELSE "GLACIER"

handle_file_upload(ev) ==
    LET file_name  == Get(ev, "file_name")
        size_bytes == Get(ev, "size_bytes")
        bucket     == Get(ev, "bucket")
        uploader   == Get(ev, "uploader")
        errors     == upload_errors(file_name, size_bytes, bucket, uploader)
    IN  IF errors # <<>> THEN Return(_err(errors))
        ELSE Return(_ok("Upload processed", JDict(
                 [file_name |-> JStr(Strip(file_name.s)),
                  size_bytes |-> size_bytes,
                  bucket |-> JStr(Lower(bucket.s)),
                  uploader |-> JStr(Lower(uploader.s)),
                  storage_class |-> JStr(Lit(storage_class(size_bytes)))])))

handler_needs_context(ev, ctx) ==
    IF ~IsDict(ctx) THEN Return(_err(<<Lit("Missing context")>>))
    ELSE IF ~IsDict(ev) THEN Return(_err(<<Lit("Event must be a dictionary")>>))
    ELSE IF "type" \notin DOMAIN ev.d THEN Return(_err(<<Lit("Missing 'type' field")>>))
    ELSE LET event_type == ev.d["type"]
         IN  IF ~Hashable(event_type) THEN Raise("TypeError")
             ELSE IF event_type \notin ALLOWED_TYPES
                  THEN Return(_err(<<Lit("Unsupported event type: ") \o PyStr(event_type)>>))
             ELSE IF event_type = JStr(S_USER_SIGNUP) THEN handle_user_signup(ev)
             ELSE IF event_type = JStr(S_PAYMENT) THEN handle_payment(ev)
             ELSE IF event_type = JStr(S_FILE_UPLOAD) THEN handle_file_upload(ev)
             ELSE Return(_err(<<Lit("Unhandled event type")>>))

\* handler(event, context): what the call returns, or the exception it raises
handler(ev, ctx) ==
    IF ~IsDict(ev) THEN Return(_err(<<Lit("Event must be a dictionary")>>))
    ELSE IF "type" \notin DOMAIN ev.d THEN Return(_err(<<Lit("Missing 'type' field")>>))
    ELSE LET event_type == ev.d["type"]
         IN  IF ~Hashable(event_type) THEN Raise("TypeError")
             ELSE IF event_type \notin ALLOWED_TYPES
                  THEN Return(_err(<<Lit("Unsupported event type: ") \o PyStr(event_type)>>))
             ELSE IF event_type = JStr(S_USER_SIGNUP) THEN handle_user_signup(ev)
             ELSE IF event_type = JStr(S_PAYMENT) THEN handle_payment(ev)
             ELSE IF event_type = JStr(S_FILE_UPLOAD) THEN handle_file_upload(ev)
             ELSE Return(_err(<<Lit("Unhandled event type")>>))

(***************************************************************************)
(* The events and contexts the handler is called with.                     *)
(***************************************************************************)
\* marks a key that the event does not hold
ABSENT == [kind |-> "absent"]

\* the dict holding the keys of f that are not ABSENT
MkDict(f) == JDict([x \in {y \in DOMAIN f : f[y] # ABSENT} |-> f[x]])

I(n) == JInt(n < 0, NatToBig(IF n < 0 THEN -n ELSE n))

\* the float a decimal literal n / d reads as
F(n, d) == JFloat(FFromRatio(n < 0, NatToBig(IF n < 0 THEN -n ELSE n), d))

\* 2^1400, an integer beyond the largest finite float
Huge == JInt(FALSE, Pow2Big(1400))

S_AtBcom == <<"A", "@", "B", ".", "c", "o", "m">>

S_UatXcom == <<"U", "@", "X", ".", "c", "o", "m">>

S_bad == <<"b", "a", "d">>

S_newline == <<"a", "@", "b", ".", "c", "\n">>

S_PRO == <<"P", "R", "O">>

S_gold == <<"g", "o", "l", "d">>

S_usd == <<"u", "s", "d">>

S_xyz == <<"x", "y", "z">>

S_p1 == <<"p", "1">>

S_atxt == <<" ", "a", ".", "t", "x", "t", " ">>

S_tab == <<"\t", "b", " ", "c", "\n">>

Contexts == {None, JDict(<<>>), JDict([aws_request_id |-> JStr(<<"r", "1">>)])}

UserIdVals ==
    {ABSENT, None, I(7), I(0), I(-3), Huge, JBool(TRUE), JStr(<<"7">>), F(15, 10),
     JList(<<>>)}

EmailVals == {ABSENT, None, I(5), JStr(S_AtBcom), JStr(S_bad), JStr(S_newline)}

PlanVals == {ABSENT, I(3), JBool(FALSE), JStr(S_PRO), JStr(S_free), JStr(S_gold)}

SignupEvents ==
    {MkDict([type |-> JStr(S_USER_SIGNUP), user_id |-> u, email |-> e, plan |-> p]) :
        u \in UserIdVals, e \in EmailVals, p \in PlanVals}

PaymentIdVals == {ABSENT, I(5), JStr(S_p1)}

PayerVals == {ABSENT, I(1), JBool(TRUE), JStr(<<"1">>)}

AmountVals ==
    {ABSENT, None, JStr(<<"1", "0">>), I(100), I(-5), I(0), Huge, JBool(TRUE),
     JBool(FALSE), F(25, 1000), F(-15, 10), JFloat(FInf(FALSE))}

CurrencyVals == {ABSENT, I(1), JStr(S_usd), JStr(S_BHD), JStr(S_xyz)}

PaymentEvents ==
    {MkDict([type |-> JStr(S_PAYMENT), payment_id |-> p, user_id |-> u, amount |-> a,
             currency |-> c]) :
        p \in PaymentIdVals, u \in PayerVals, a \in AmountVals, c \in CurrencyVals}

FileNameVals == {ABSENT, I(1), JStr(S_atxt), JStr(S_tab)}

SizeVals ==
    {ABSENT, None, JStr(<<"1">>), F(15, 10), JBool(TRUE), Huge, I(-1), I(0), I(999999),
     I(1000000), I(2000000), I(49999999), I(50000000)}

BucketVals == {ABSENT, None, JStr(<<"B">>)}

UploaderVals == {ABSENT, I(1), JStr(S_UatXcom), JStr(S_bad)}

UploadEvents ==
    {MkDict([type |-> JStr(S_FILE_UPLOAD), file_name |-> f, size_bytes |-> z,
             bucket |-> b, uploader |-> u]) :
        f \in FileNameVals, z \in SizeVals, b \in BucketVals, u \in UploaderVals}

\* events that are no dict
NonDictEvents ==
    {None, JBool(TRUE), I(3), F(15, 10), JStr(S_USER_SIGNUP), JList(<<>>),
     JList(<<MkDict([type |-> JStr(S_PAYMENT)])>>)}

\* type values outside ALLOWED_TYPES, and no type at all
OtherTypeVals ==
    {ABSENT, None, JBool(TRUE), I(5), I(-12), F(15, 10), F(625, 10000),
     JStr(<<"U", "N", "K", "N", "O", "W", "N">>), JStr(<<"p", "a", "y", "m", "e", "n", "t">>),
     JStr(<<>>), JList(<<>>), JList(<<JStr(S_PAYMENT)>>), JDict(<<>>)}

OtherTypeEvents ==
    {MkDict([type |-> t, user_id |-> u, email |-> e, plan |-> JStr(S_PRO)]) :
        t \in OtherTypeVals, u \in {ABSENT, I(7)}, e \in {ABSENT, JStr(S_bad)}}

Events ==
    NonDictEvents \cup OtherTypeEvents \cup SignupEvents \cup PaymentEvents
        \cup UploadEvents

\* payments whose amounts exercise the float arithmetic
E20 == BigMulSmall(BigMul(NatToBig(1000000000), NatToBig(1000000000)), 100)

\* the largest finite float, 2^1024 - 2^971, as an int
MaxFloatInt == BigShl(BigSub(Pow2Big(53), <<1>>), 971)

FineAmountVals ==
    {ABSENT, None, JStr(<<"1", "0">>), JBool(TRUE), JBool(FALSE),
     I(100), I(1), I(3), I(0), I(-5), I(999999999),
     F(25, 1000), F(625, 10000), F(1875, 10000), F(2675, 1000), F(12345675, 10000),
     F(4, 10000), F(5, 10000), F(15, 10000), F(10005, 10000), F(1999, 100),
     F(1, 1000), F(-15, 10), F(0, 1),
     JInt(FALSE, E20), JFloat(FFromRatio(FALSE, E20, 1)),
     JInt(FALSE, BigAdd(Pow2Big(53), <<1>>)), JInt(FALSE, Pow2Big(70)),
     JInt(FALSE, MaxFloatInt), JInt(FALSE, BigShl(BigSub(Pow2Big(54), <<1>>), 970)),
     JInt(FALSE, Pow2Big(1024)), Huge, JInt(TRUE, Pow2Big(1400)),
     JFloat(FInf(FALSE)), JFloat(FInf(TRUE))}

S_Eur == <<"E", "u", "r">>

FinePaymentEvents ==
    {MkDict([type |-> JStr(S_PAYMENT), payment_id |-> p, user_id |-> I(1), amount |-> a,
             currency |-> c]) :
        p \in {I(5), JStr(S_p1)}, a \in FineAmountVals,
        c \in {JStr(S_usd), JStr(S_Eur), JStr(S_xyz)}}

\* signups and uploads whose email is any string over EmailAlphabet
MaxEmailLen == 6

EmailAlphabet == {"a", "@", ".", " ", "\n"}

EmailStrings(len) == UNION {[1..n -> EmailAlphabet] : n \in 0..len}

EmailEvents(len) ==
    {MkDict([type |-> JStr(S_USER_SIGNUP), user_id |-> I(7), email |-> JStr(s),
             plan |-> JStr(S_PRO)]) : s \in EmailStrings(len)}
    \cup
    {MkDict([type |-> JStr(S_FILE_UPLOAD), file_name |-> JStr(S_atxt),
             size_bytes |-> I(2000000), bucket |-> JStr(<<"B">>),
             uploader |-> JStr(s)]) : s \in EmailStrings(len)}

\* the events of a run of several calls
CallEvents ==
    {None,
     MkDict([type |-> JList(<<>>)]),
     MkDict([type |-> JStr(S_USER_SIGNUP), user_id |-> I(7), email |-> JStr(S_AtBcom),
             plan |-> JStr(S_PRO)]),
     MkDict([type |-> JStr(S_USER_SIGNUP), user_id |-> None, email |-> JStr(S_bad),
             plan |-> JStr(S_gold)]),
     MkDict([type |-> JStr(S_PAYMENT), payment_id |-> JStr(S_p1), user_id |-> I(1),
             amount |-> I(100), currency |-> JStr(S_usd)]),
     MkDict([type |-> JStr(S_PAYMENT), payment_id |-> JStr(S_p1), user_id |-> I(1),
             amount |-> Huge, currency |-> JStr(S_usd)]),
     MkDict([type |-> JStr(S_FILE_UPLOAD), file_name |-> JStr(S_atxt),
             size_bytes |-> I(2000000), bucket |-> JStr(<<"B">>),
             uploader |-> JStr(S_UatXcom)])}

MaxCalls == 2

(***************************************************************************)
(* The state machine: an event and a context arrive, the handler is called *)
(* and returns or raises.  history holds the calls made before this one.   *)
(***************************************************************************)
Pending == [kind |-> "pending"]

InitWith(E, C) ==
    /\ event \in E
    /\ context \in C
    /\ result = Pending
    /\ history = <<>>

Init == InitWith(Events, Contexts)

\* one call of handler(event, context)
Invoke ==
    /\ result.kind = "pending"
    /\ result' = handler(event, context)
    /\ UNCHANGED <<event, context, history>>

Next == Invoke

Spec == Init /\ [][Next]_vars

InitPayment == InitWith(FinePaymentEvents, {None})

SpecPayment == InitPayment /\ [][Next]_vars

InitEmail == InitWith(EmailEvents(MaxEmailLen), {None})

SpecEmail == InitEmail /\ [][Next]_vars

\* the next event and context arrive, and the call just made joins history
Arrive ==
    /\ result.kind # "pending"
    /\ Len(history) + 1 < MaxCalls
    /\ history' = Append(history, [event |-> event, context |-> context, result |-> result])
    /\ event' \in CallEvents
    /\ context' \in Contexts
    /\ result' = Pending

InitCalls == InitWith(CallEvents, Contexts)

NextCalls == Invoke \/ Arrive

SpecCalls == InitCalls /\ [][NextCalls]_vars

(***************************************************************************)
(* What the claims are stated with.                                        *)
(***************************************************************************)
Done == result.kind # "pending"

Returned == result.kind = "return"

HasType(t) == IsDict(event) /\ "type" \in DOMAIN event.d /\ event.d["type"] = JStr(t)

IsSignup == HasType(S_USER_SIGNUP)

IsPayment == HasType(S_PAYMENT)

IsUpload == HasType(S_FILE_UPLOAD)

\* the envelope holds the error message m
Msg(m) == \E i \in 1..Len(result.value.errors) : result.value.errors[i] = Lit(m)

ErrorEnvelope(msgs) ==
    [status |-> "error", message |-> "Event rejected", data |-> None, errors |-> msgs]

Fails(c) == c.fails

\* the messages of the failing checks, in the order the checks are listed
Failing(checks) ==
    LET sel == SelectSeq(checks, Fails) IN [i \in 1..Len(sel) |-> Lit(sel[i].msg)]

\* the checks of each validator in its declared order: a format or value check
\* is made only on a field that passed its type check
SignupChecks ==
    LET user_id == Get(event, "user_id")
        email   == Get(event, "email")
        plan    == Get(event, "plan")
    IN  <<[fails |-> ~IsInt(user_id), msg |-> "user_id must be an integer"],
          [fails |-> ~IsStr(email), msg |-> "email must be a string"],
          [fails |-> ~IsStr(plan), msg |-> "plan must be a string"],
          [fails |-> IsStr(email) /\ ~_is_email(email.s), msg |-> "Invalid email format"],
          [fails |-> IsStr(plan) /\ Lower(plan.s) \notin {S_free, S_pro, S_edu},
           msg |-> "Invalid plan value"]>>

PaymentChecks ==
    LET payment_id == Get(event, "payment_id")
        user_id    == Get(event, "user_id")
        amount     == Get(event, "amount")
        currency   == Get(event, "currency")
    IN  <<[fails |-> ~IsStr(payment_id), msg |-> "payment_id must be a string"],
          [fails |-> ~IsInt(user_id), msg |-> "user_id must be an integer"],
          [fails |-> ~IsNumber(amount), msg |-> "amount must be a number"],
          [fails |-> ~IsStr(currency), msg |-> "currency must be a string"],
          [fails |-> IsNumber(amount) /\ LeZero(amount),
           msg |-> "amount must be greater than 0"],
          [fails |-> IsStr(currency) /\ Upper(currency.s) \notin {S_BHD, S_USD, S_EUR},
           msg |-> "Unsupported currency"]>>

UploadChecks ==
    LET file_name  == Get(event, "file_name")
        size_bytes == Get(event, "size_bytes")
        bucket     == Get(event, "bucket")
        uploader   == Get(event, "uploader")
    IN  <<[fails |-> ~IsStr(file_name), msg |-> "file_name must be a string"],
          [fails |-> ~IsInt(size_bytes), msg |-> "size_bytes must be an integer"],
          [fails |-> IsInt(size_bytes) /\ IntLt(size_bytes, 0),
           msg |-> "size_bytes must be >= 0"],
          [fails |-> ~IsStr(bucket), msg |-> "bucket must be a string"],
          [fails |-> ~IsStr(uploader), msg |-> "uploader must be a string"],
          [fails |-> IsStr(uploader) /\ ~_is_email(uploader.s),
           msg |-> "Invalid uploader email"]>>

(***************************************************************************)
(* C1                                                                      *)
(***************************************************************************)
\* C1: in every envelope the handler returns, on every return path of the
\* dispatcher and of the three validators, status is "ok" iff errors is empty iff
\* data is not None, and status is "error" iff data is None and errors is not empty.
C1_EnvelopeInvariant ==
    Returned =>
        LET r == result.value
        IN  /\ (r.status = "ok") <=> (r.errors = <<>>)
            /\ (r.errors = <<>>) <=> (r.data # None)
            /\ (r.status = "error") <=> (r.data = None /\ r.errors # <<>>)

\* a validator rejected an event with several errors
C1_Witness ==
    /\ Returned
    /\ IsUpload
    /\ result.value.status = "error"
    /\ Len(result.value.errors) >= 2

(***************************************************************************)
(* C2                                                                      *)
(***************************************************************************)
\* C2: every call of the handler returns an envelope with exactly the keys status,
\* message, data and errors and with status "ok" or "error"; no call raises.
C2_Total ==
    Done =>
        /\ Returned
        /\ DOMAIN result.value = {"status", "message", "data", "errors"}
        /\ result.value.status \in {"ok", "error"}

(***************************************************************************)
(* C3                                                                      *)
(***************************************************************************)
S_UNKNOWN == <<"U", "N", "K", "N", "O", "W", "N">>

\* C3: an event that is no dict is rejected with "Event must be a dictionary"; else
\* one without a type with "Missing 'type' field"; else one whose type is not an
\* allowed type with "Unsupported event type: <value>"; each with that one error
\* only.  Every other event gets the envelope of the validator of its type.
C3_Dispatch ==
    Done =>
        IF ~IsDict(event)
        THEN result = Return(ErrorEnvelope(<<Lit("Event must be a dictionary")>>))
        ELSE IF "type" \notin DOMAIN event.d
        THEN result = Return(ErrorEnvelope(<<Lit("Missing 'type' field")>>))
        ELSE IF event.d["type"] \notin ALLOWED_TYPES
        THEN /\ Returned
             /\ result = Return(ErrorEnvelope(
                    <<Lit("Unsupported event type: ") \o PyStr(event.d["type"])>>))
             /\ event.d["type"] = JStr(S_UNKNOWN)
                    => result.value.errors = <<Lit("Unsupported event type: ") \o S_UNKNOWN>>
        ELSE /\ IsSignup => result = handle_user_signup(event)
             /\ IsPayment => result = handle_payment(event)
             /\ IsUpload => result = handle_file_upload(event)

(***************************************************************************)
(* C4                                                                      *)
(***************************************************************************)
ExpectedErrors ==
    IF IsSignup THEN Failing(SignupChecks)
    ELSE IF IsPayment THEN Failing(PaymentChecks)
    ELSE Failing(UploadChecks)

\* C4: the errors a validator returns are exactly the messages of the failing
\* checks, each once, in the validator's declared order (a type check being the
\* isinstance test the validator makes); a call with a failing check returns the
\* error envelope of that list; no field yields both its type error and its format
\* or value error; and the envelope is an error envelope with message
\* "Event rejected" iff that list is not empty.
C4_AllErrors ==
    Done /\ (IsSignup \/ IsPayment \/ IsUpload) =>
        /\ ExpectedErrors # <<>> => result = Return(ErrorEnvelope(ExpectedErrors))
        /\ Returned =>
               /\ result.value.errors = ExpectedErrors
               /\ (result.value.status = "error" /\ result.value.message = "Event rejected")
                      <=> (ExpectedErrors # <<>>)
               /\ ~(Msg("email must be a string") /\ Msg("Invalid email format"))
               /\ ~(Msg("plan must be a string") /\ Msg("Invalid plan value"))
               /\ ~(Msg("amount must be a number") /\ Msg("amount must be greater than 0"))
               /\ ~(Msg("currency must be a string") /\ Msg("Unsupported currency"))
               /\ ~(Msg("size_bytes must be an integer") /\ Msg("size_bytes must be >= 0"))
               /\ ~(Msg("uploader must be a string") /\ Msg("Invalid uploader email"))

\* a payment failed a type check of a later field and a value check of an earlier one
C4_Witness ==
    /\ Returned
    /\ IsPayment
    /\ result.value.errors =
           <<Lit("payment_id must be a string"), Lit("currency must be a string"),
             Lit("amount must be greater than 0")>>

(***************************************************************************)
(* C5                                                                      *)
(***************************************************************************)
Scenario1 ==
    MkDict([type |-> JStr(S_USER_SIGNUP), user_id |-> I(7), email |-> JStr(S_AtBcom),
            plan |-> JStr(S_PRO)])

\* C5: a USER_SIGNUP event that passes all checks gets an ok envelope with message
\* "Signup processed" and data of exactly user_id (unchanged), email (lower-cased),
\* plan (lower-cased) and welcome_email_subject = "Welcome to the <plan> plan!";
\* email "A@B.com" and plan "PRO" give "a@b.com", "pro", "Welcome to the pro plan!".
C5_Signup ==
    Done /\ IsSignup /\ Failing(SignupChecks) = <<>> =>
        /\ Returned
        /\ result.value.status = "ok"
        /\ result.value.message = "Signup processed"
        /\ LET d == result.value.data.d
           IN  /\ DOMAIN d = {"user_id", "email", "plan", "welcome_email_subject"}
               /\ d.user_id = event.d.user_id
               /\ d.email = JStr(Lower(event.d.email.s))
               /\ d.plan = JStr(Lower(event.d.plan.s))
               /\ d.welcome_email_subject =
                      JStr(<<"Welcome to the ">> \o Lower(event.d.plan.s) \o <<" plan!">>)
        /\ event = Scenario1 =>
               result.value.data =
                   JDict([user_id |-> I(7),
                          email |-> JStr(<<"a", "@", "b", ".", "c", "o", "m">>),
                          plan |-> JStr(<<"p", "r", "o">>),
                          welcome_email_subject |->
                              JStr(<<"Welcome to the ", "p", "r", "o", " plan!">>)])

C5_Witness == Returned /\ event = Scenario1 /\ result.value.status = "ok"

(***************************************************************************)
(* C6                                                                      *)
(***************************************************************************)
\* an exact sum as a value FExactAdd takes
AsExact(d) == [k |-> "fin", neg |-> d.neg, m |-> d.mag, e |-> d.e]

\* |n + f - a| <= 0.001, exactly
WithinOneMilli(n, f, a) ==
    /\ n.k = "fin" /\ f.k = "fin" /\ a.k = "fin"
    /\ LET d == FExactAdd(AsExact(FExactAdd(n, f)), FNeg(a))
       IN  \/ d.mag = <<>>
           \/ d.e < 0 /\ BigCmp(BigMulSmall(d.mag, 1000), Pow2Big(-d.e)) <= 0

\* C6: a PAYMENT event that passes all checks gets an ok envelope with message
\* "Payment processed", payment_id and user_id unchanged, currency upper-cased,
\* amount = round(amount, 3), fee = round(amount * 0.02, 3) from the rounded amount,
\* net_amount = round(amount - fee, 3) from both; amount 100 gives 100.0, 2.0 and
\* 98.0; and net_amount + fee is within 0.001 of the rounded amount.
C6_Payment ==
    Done /\ IsPayment /\ Failing(PaymentChecks) = <<>> =>
        /\ Returned
        /\ result.value.status = "ok"
        /\ result.value.message = "Payment processed"
        /\ LET d == result.value.data.d
               a == FRound3(PyFloat(event.d.amount).value)
               f == FRound3(FMul(a, FeeRate))
               n == FRound3(FSub(a, f))
           IN  /\ DOMAIN d =
                      {"payment_id", "user_id", "amount", "currency", "fee", "net_amount"}
               /\ d.payment_id = event.d.payment_id
               /\ d.user_id = event.d.user_id
               /\ d.currency = JStr(Upper(event.d.currency.s))
               /\ d.amount = JFloat(a)
               /\ d.fee = JFloat(f)
               /\ d.net_amount = JFloat(n)
               /\ WithinOneMilli(d.net_amount.f, d.fee.f, d.amount.f)
               /\ event.d.amount = I(100) =>
                      /\ d.amount = F(100, 1)
                      /\ d.fee = F(2, 1)
                      /\ d.net_amount = F(98, 1)

(***************************************************************************)
(* C7                                                                      *)
(***************************************************************************)
Scenario4 ==
    MkDict([type |-> JStr(S_FILE_UPLOAD), file_name |-> JStr(S_atxt),
            size_bytes |-> I(2000000), bucket |-> JStr(<<"B">>),
            uploader |-> JStr(S_UatXcom)])

ClassOf(d) == d.storage_class.s[1]

\* C7: a FILE_UPLOAD event that passes all checks gets an ok envelope with message
\* "Upload processed", file_name stripped, size_bytes unchanged, bucket and
\* uploader lower-cased, and storage_class "STANDARD" below 1,000,000 bytes,
\* "STANDARD_IA" from 1,000,000 and below 50,000,000, "GLACIER" from 50,000,000:
\* 999,999 is STANDARD, 1,000,000 and 49,999,999 are STANDARD_IA, 50,000,000 is
\* GLACIER.
C7_Upload ==
    Done /\ IsUpload /\ Failing(UploadChecks) = <<>> =>
        /\ Returned
        /\ result.value.status = "ok"
        /\ result.value.message = "Upload processed"
        /\ LET d == result.value.data.d
               z == event.d.size_bytes
           IN  /\ DOMAIN d =
                      {"file_name", "size_bytes", "bucket", "uploader", "storage_class"}
               /\ d.file_name = JStr(Strip(event.d.file_name.s))
               /\ d.file_name.s = <<>> \/
                      (~IsSpace(d.file_name.s[1]) /\ ~IsSpace(d.file_name.s[Len(d.file_name.s)]))
               /\ d.size_bytes = z
               /\ d.bucket = JStr(Lower(event.d.bucket.s))
               /\ d.uploader = JStr(Lower(event.d.uploader.s))
               /\ Len(d.storage_class.s) = 1
               /\ ClassOf(d) \in {"STANDARD", "STANDARD_IA", "GLACIER"}
               /\ (ClassOf(d) = "STANDARD") <=> IntLt(z, 1000000)
               /\ (ClassOf(d) = "STANDARD_IA") <=> (~IntLt(z, 1000000) /\ IntLt(z, 50000000))
               /\ (ClassOf(d) = "GLACIER") <=> ~IntLt(z, 50000000)
               /\ z = I(999999) => ClassOf(d) = "STANDARD"
               /\ z = I(1000000) => ClassOf(d) = "STANDARD_IA"
               /\ z = I(49999999) => ClassOf(d) = "STANDARD_IA"
               /\ z = I(50000000) => ClassOf(d) = "GLACIER"
        /\ event = Scenario4 =>
               result.value.data =
                   JDict([file_name |-> JStr(<<"a", ".", "t", "x", "t">>),
                          size_bytes |-> I(2000000),
                          bucket |-> JStr(<<"b">>),
                          uploader |-> JStr(<<"u", "@", "x", ".", "c", "o", "m">>),
                          storage_class |-> JStr(<<"STANDARD_IA">>)])

\* an upload of exactly 1,000,000 bytes was accepted
C7_Witness ==
    /\ Returned
    /\ IsUpload
    /\ result.value.status = "ok"
    /\ event.d.size_bytes = I(1000000)

(***************************************************************************)
(* C8                                                                      *)
(***************************************************************************)
\* exactly one @, no whitespace anywhere, a character before the @ and a . after it
ClaimedEmail(s) ==
    /\ Cardinality({i \in 1..Len(s) : s[i] = "@"}) = 1
    /\ \A i \in 1..Len(s) : ~IsSpace(s[i])
    /\ \E i \in 2..Len(s) : s[i] = "@" /\ \E j \in (i + 1)..Len(s) : s[j] = "."

\* C8: the email-format check accepts a string iff it holds exactly one @, no
\* whitespace anywhere (a trailing newline included), a character before the @ and
\* a . after it; a signup reports "Invalid email format", an upload "Invalid
\* uploader email", for exactly the strings it does not accept.
C8_EmailFormat ==
    Returned =>
        /\ IsSignup /\ IsStr(Get(event, "email")) =>
               (Msg("Invalid email format") <=> ~ClaimedEmail(event.d.email.s))
        /\ IsUpload /\ IsStr(Get(event, "uploader")) =>
               (Msg("Invalid uploader email") <=> ~ClaimedEmail(event.d.uploader.s))

(***************************************************************************)
(* C9                                                                      *)
(***************************************************************************)
\* the calls made so far, the one just made included
Calls ==
    history \o (IF Done THEN <<[event |-> event, context |-> context, result |-> result]>>
                ELSE <<>>)

\* C9: any two calls with the same event, in any order and with any contexts, have
\* the same outcome: the same status, message, data and errors.
C9_Deterministic ==
    \A i \in 1..Len(Calls) : \A j \in 1..Len(Calls) :
        Calls[i].event = Calls[j].event => Calls[i].result = Calls[j].result

\* the same event was handled twice, with and without a context
C9_Witness ==
    /\ Returned
    /\ Len(history) >= 1
    /\ history[1].event = event
    /\ history[1].context = None
    /\ context # None

(***************************************************************************)
(* C10                                                                     *)
(***************************************************************************)
\* a JSON integer: a bool is none
IsJsonInteger(v) == v.kind = "int"

IsJsonNumber(v) == v.kind \in {"int", "float"}

\* C10: "user_id must be an integer" and "size_bytes must be an integer" are
\* reported exactly when the field is absent or no integer (a string, a float, a
\* boolean, null, a record, a sequence), "amount must be a number" exactly when
\* amount is absent or neither integer nor float; so no event with a boolean in
\* user_id, size_bytes or amount gets an ok envelope.
C10_NumericTypes ==
    Returned =>
        /\ IsSignup \/ IsPayment =>
               /\ Msg("user_id must be an integer") <=> ~IsJsonInteger(Get(event, "user_id"))
               /\ Get(event, "user_id").kind = "bool" => result.value.status = "error"
        /\ IsPayment =>
               /\ Msg("amount must be a number") <=> ~IsJsonNumber(Get(event, "amount"))
               /\ Get(event, "amount").kind = "bool" => result.value.status = "error"
        /\ IsUpload =>
               /\ Msg("size_bytes must be an integer")
                      <=> ~IsJsonInteger(Get(event, "size_bytes"))
               /\ Get(event, "size_bytes").kind = "bool" => result.value.status = "error"

=============================================================================
